---- MODULE Spec2Model ----
(***************************************************************************)
(* Model of the feature-flag evaluation engine of evaluation/evaluator.go  *)
(* (package evaluation of ff-golang-server-sdk).                           *)
(*                                                                         *)
(* Go values are modelled as follows.                                      *)
(*   - a pointer field that may be nil (to a slice, a string or a         *)
(*     Distribution) is a sequence of length at most one: <<>> is nil,     *)
(*     <<x>> points to x;                                                  *)
(*   - a slice is a sequence, a struct a record;                           *)
(*   - a Go string is a TLA+ string; the string functions of the clause    *)
(*     operators work on its characters, Chars(s);                         *)
(*   - a (value, error) result is a record [err, variation];               *)
(*   - the recursion of checkPreRequisite is run one loop iteration at a   *)
(*     time on an explicit call stack.                                     *)
(***************************************************************************)
EXTENDS Integers, Sequences, FiniteSets, TLC

VARIABLES
  flags,      \* identifier -> rest.FeatureConfig held by the Query provider
  segments,   \* identifier -> rest.Segment held by the Query provider
  hookSet,    \* e.postEvalCallback != nil
  pc,         \* "idle" | "prereq" | "overflow"
  cur,        \* the call in progress, or the last one finished
  stack,      \* frames of checkPreRequisite: [fc, i]
  res,        \* what evaluate returned: [err, variation]
  ret,        \* what the typed accessor returned
  preOk,      \* what the top-level checkPreRequisite returned
  hookLog,    \* PostEvaluateProcessor invocations of the call in cur
  ncalls,     \* calls started
  ref,        \* an earlier finished evaluate call and its result
  orig,       \* the provider's flags as first supplied
  fin,        \* input of a resolver applied on its own
  fout        \* its result

vars == <<flags, segments, hookSet, pc, cur, stack, res, ret, preOk, hookLog,
          ncalls, ref, orig, fin, fout>>

----------------------------------------------------------------------------
(* Optional (pointer) values *)

None == <<>>
Some(x) == <<x>>
IsNil(p) == Len(p) = 0
Deref(p) == p[1]

----------------------------------------------------------------------------
(* Strings *)

oneHundred == 100

segmentMatchOperator == "segmentMatch"
matchOperator == "match"
inOperator == "in"
equalOperator == "equal"
gtOperator == "gt"
startsWithOperator == "starts_with"
endsWithOperator == "ends_with"
containsOperator == "contains"
equalSensitiveOperator == "equal_sensitive"

\* The characters of the strings that reach a clause operator.
Chars(s) ==
  CASE s = "" -> <<>>
    [] s = "u" -> <<"u">>
    [] s = "1" -> <<"1">>
    [] s = "7" -> <<"7">>
    [] s = "9" -> <<"9">>
    [] s = "u1" -> <<"u", "1">>
    [] s = "u2" -> <<"u", "2">>
    [] s = "u3" -> <<"u", "3">>
    [] s = "U1" -> <<"U", "1">>
    [] s = "pro" -> <<"p", "r", "o">>
    [] s = "Pro" -> <<"P", "r", "o">>
    [] s = "ro" -> <<"r", "o">>
    [] s = "true" -> <<"t", "r", "u", "e">>
    [] s = "false" -> <<"f", "a", "l", "s", "e">>
    [] s = "(" -> <<"(">>
    [] s = "S1" -> <<"S", "1">>
    [] s = "S2" -> <<"S", "2">>
    [] s = "S9" -> <<"S", "9">>

\* Byte value of a character (ASCII).
Code(c) ==
  CASE c = "(" -> 40 [] c = "1" -> 49 [] c = "2" -> 50 [] c = "3" -> 51
    [] c = "7" -> 55 [] c = "9" -> 57 [] c = "P" -> 80 [] c = "S" -> 83
    [] c = "U" -> 85 [] c = "a" -> 97 [] c = "e" -> 101 [] c = "f" -> 102
    [] c = "l" -> 108 [] c = "o" -> 111 [] c = "p" -> 112 [] c = "r" -> 114
    [] c = "s" -> 115 [] c = "t" -> 116 [] c = "u" -> 117

\* Simple case folding of a character.
Fold(c) ==
  CASE c = "P" -> "p" [] c = "S" -> "s" [] c = "U" -> "u" [] OTHER -> c

HasPrefix(s, prefix) ==
  LET a == Chars(s) p == Chars(prefix)
  IN Len(p) <= Len(a) /\ SubSeq(a, 1, Len(p)) = p

HasSuffix(s, suffix) ==
  LET a == Chars(s) p == Chars(suffix)
  IN Len(p) <= Len(a) /\ SubSeq(a, Len(a) - Len(p) + 1, Len(a)) = p

Contains(s, substr) ==
  LET a == Chars(s) p == Chars(substr)
  IN \E i \in 0..(Len(a) - Len(p)) : SubSeq(a, i + 1, i + Len(p)) = p

EqualFold(s, t) ==
  LET a == Chars(s) b == Chars(t)
  IN Len(a) = Len(b) /\ \A i \in 1..Len(a) : Fold(a[i]) = Fold(b[i])

\* Go's s > t on strings: bytewise lexicographic order.
RECURSIVE SeqGreater(_, _)
SeqGreater(a, b) ==
  IF Len(a) = 0 THEN FALSE
  ELSE IF Len(b) = 0 THEN TRUE
  ELSE IF Code(a[1]) # Code(b[1]) THEN Code(a[1]) > Code(b[1])
  ELSE SeqGreater(Tail(a), Tail(b))

StringGreater(s, t) == SeqGreater(Chars(s), Chars(t))

\* regexp.MatchString(pattern, s): the patterns of the model are literals
\* (no metacharacter), which match wherever they occur, and "(", which does
\* not compile.
MatchString(pattern, s) ==
  IF pattern = "(" THEN [found |-> FALSE, err |-> TRUE]
  ELSE [found |-> Contains(s, pattern), err |-> FALSE]

\* strconv.FormatInt(n, 10) and strconv.FormatBool(b)
FormatInt(n) == CASE n = 1 -> "1" [] n = 7 -> "7" [] n = 9 -> "9"
FormatBool(b) == IF b THEN "true" ELSE "false"

----------------------------------------------------------------------------
(* Targets *)

Target(identifier, name, anonymous, attributes) ==
  [Identifier |-> identifier, Name |-> name, Anonymous |-> anonymous,
   Attributes |-> attributes]

StrV(s) == [Kind |-> "String", v |-> s]
IntV(n) == [Kind |-> "Int", v |-> n]
BoolV(b) == [Kind |-> "Bool", v |-> b]
FloatV(x) == [Kind |-> "Float64", v |-> x]

T1 == Target("u1", "pro", FALSE, [a \in {"plan", "age"} |->
                IF a = "plan" THEN StrV("pro") ELSE IntV(7)])
T2 == Target("u2", "Pro", TRUE, [a \in {"plan", "score"} |->
                IF a = "plan" THEN StrV("Pro") ELSE FloatV(9)])
T3 == Target("u3", "", FALSE, [a \in {"beta"} |-> BoolV(TRUE)])

Targets == {T1, T2, T3}

\* getAttrValue: the built-in fields by reserved name, else the custom
\* attribute; None is the invalid reflect.Value.
getAttrValue(target, attribute) ==
  IF attribute = "identifier" THEN Some(StrV(target.Identifier))
  ELSE IF attribute = "name" THEN Some(StrV(target.Name))
  ELSE IF attribute = "anonymous" THEN Some(BoolV(target.Anonymous))
  ELSE IF attribute \in DOMAIN target.Attributes
       THEN Some(target.Attributes[attribute])
  ELSE None

\* isTargetInList: by identifier.
isTargetInList(target, targets) ==
  \E i \in 1..Len(targets) : targets[i] = target.Identifier

----------------------------------------------------------------------------
(* Clauses and segments *)

Clause(attribute, op, values) ==
  [Attribute |-> attribute, Op |-> op, Values |-> values]

Segment(identifier, excluded, included, rules) ==
  [Identifier |-> identifier, Excluded |-> excluded, Included |-> included,
   Rules |-> rules]

\* e.query.GetSegment(identifier)
GetSegment(identifier) ==
  IF identifier \in DOMAIN segments
  THEN [err |-> FALSE, segment |-> segments[identifier]]
  ELSE [err |-> TRUE]

\* The text the clause compares (lines 90-106): only Int, Bool and String
\* are formatted; every other kind, and the invalid value, leaves "".
object(attrValue) ==
  IF IsNil(attrValue) THEN ""
  ELSE LET a == Deref(attrValue)
       IN CASE a.Kind = "Int" -> FormatInt(a.v)
            [] a.Kind = "Bool" -> FormatBool(a.v)
            [] a.Kind = "String" -> a.v
            [] OTHER -> ""

RECURSIVE evaluateClause(_, _)
RECURSIVE evaluateClausesFrom(_, _, _)
RECURSIVE segmentLoop(_, _, _)

evaluateClauses(clauses, target) == evaluateClausesFrom(clauses, target, 1)

isTargetIncludedOrExcludedInSegment(segmentList, target) ==
  segmentLoop(segmentList, target, 1)

evaluateClause(clause, target) ==
  IF Len(clause.Values) = 0 THEN FALSE
  ELSE IF clause.Op = "" THEN FALSE
  ELSE
    LET values == clause.Values
        value == values[1]
        operator == clause.Op
        attrValue == getAttrValue(target, clause.Attribute)
        obj == object(attrValue)
    IN IF operator # segmentMatchOperator /\ IsNil(attrValue) THEN FALSE
       ELSE CASE operator = startsWithOperator -> HasPrefix(obj, value)
              [] operator = endsWithOperator -> HasSuffix(obj, value)
              [] operator = matchOperator ->
                   LET m == MatchString(value, obj)
                   IN IF m.err \/ ~m.found THEN FALSE ELSE TRUE
              [] operator = containsOperator -> Contains(obj, value)
              [] operator = equalOperator -> EqualFold(obj, value)
              [] operator = equalSensitiveOperator -> obj = value
              [] operator = inOperator ->
                   \E i \in 1..Len(values) : values[i] = obj
              [] operator = gtOperator -> StringGreater(obj, value)
              [] operator = segmentMatchOperator ->
                   isTargetIncludedOrExcludedInSegment(values, target)
              [] OTHER -> FALSE

evaluateClausesFrom(clauses, target, i) ==
  IF i > Len(clauses) THEN TRUE
  ELSE IF ~evaluateClause(clauses[i], target) THEN FALSE
  ELSE evaluateClausesFrom(clauses, target, i + 1)

\* segmentLoop with the included list consulted before the excluded one.
RECURSIVE segmentLoopIncludedFirst(_, _, _)
segmentLoopIncludedFirst(segmentList, target, i) ==
  IF i > Len(segmentList) THEN FALSE
  ELSE
    LET got == GetSegment(segmentList[i])
    IN IF got.err THEN FALSE
       ELSE LET segment == got.segment
            IN IF ~IsNil(segment.Included)
                  /\ isTargetInList(target, Deref(segment.Included))
               THEN TRUE
               ELSE IF ~IsNil(segment.Excluded)
                       /\ isTargetInList(target, Deref(segment.Excluded))
               THEN FALSE
               ELSE IF ~IsNil(segment.Rules)
                       /\ evaluateClauses(Deref(segment.Rules), target)
               THEN TRUE
               ELSE segmentLoopIncludedFirst(segmentList, target, i + 1)

segmentLoop(segmentList, target, i) ==
  IF i > Len(segmentList) THEN FALSE
  ELSE
    LET got == GetSegment(segmentList[i])
    IN IF got.err THEN FALSE
       ELSE LET segment == got.segment
            IN IF ~IsNil(segment.Excluded)
                  /\ isTargetInList(target, Deref(segment.Excluded))
               THEN FALSE
               ELSE IF ~IsNil(segment.Included)
                       /\ isTargetInList(target, Deref(segment.Included))
               THEN TRUE
               ELSE IF ~IsNil(segment.Rules)
                       /\ evaluateClauses(Deref(segment.Rules), target)
               THEN TRUE
               ELSE segmentLoop(segmentList, target, i + 1)

----------------------------------------------------------------------------
(* Flags *)

Variation(identifier, value) == [Identifier |-> identifier, Value |-> value]

\* rest.Variation{}
EmptyVariation == Variation("", "")

WeightedVariation(variation, weight) ==
  [Variation |-> variation, Weight |-> weight]

Distribution(bucketBy, variations) ==
  [BucketBy |-> bucketBy, Variations |-> variations]

Serve(distribution, variation) ==
  [Distribution |-> distribution, Variation |-> variation]

ServingRule(ruleId, priority, clauses, serve) ==
  [RuleId |-> ruleId, Priority |-> priority, Clauses |-> clauses,
   Serve |-> serve]

VariationMap(variation, targets, targetSegments) ==
  [Variation |-> variation, Targets |-> targets,
   TargetSegments |-> targetSegments]

Prerequisite(feature, variations) ==
  [Feature |-> feature, Variations |-> variations]

FeatureConfig(feature, kind, state, variations, offVariation, defaultServe, rules, variationToTargetMap, prerequisites) ==
  [Feature |-> feature, Kind |-> kind, State |-> state,
   Variations |-> variations, OffVariation |-> offVariation,
   DefaultServe |-> defaultServe, Rules |-> rules,
   VariationToTargetMap |-> variationToTargetMap,
   Prerequisites |-> prerequisites]

FeatureStateOn == "on"
FeatureStateOff == "off"

\* e.query.GetFlag(identifier)
GetFlag(identifier) ==
  IF identifier \in DOMAIN flags
  THEN [err |-> FALSE, flag |-> flags[identifier]]
  ELSE [err |-> TRUE]

\* A (rest.Variation, error) result.
Ok(variation) == [err |-> "none", variation |-> variation]
Fail(err) == [err |-> err, variation |-> EmptyVariation]

\* findVariation: the first variation of the list with that identifier.
RECURSIVE findVariationFrom(_, _, _)
findVariationFrom(variations, identifier, i) ==
  IF i > Len(variations) THEN Fail("ErrVariationNotFound")
  ELSE IF variations[i].Identifier = identifier THEN Ok(variations[i])
  ELSE findVariationFrom(variations, identifier, i + 1)

findVariation(variations, identifier) ==
  findVariationFrom(variations, identifier, 1)

\* contains(list, value)
contains(list, value) == \E i \in 1..Len(list) : list[i] = value

\* The deterministic hash of the bucket-by text.
Hash(text) ==
  CASE text = "u1" -> 210 [] text = "u2" -> 160 [] text = "u3" -> 399
    [] text = "pro" -> 30 [] text = "Pro" -> 575 [] OTHER -> 0

\* The bucket of a target, in [0, oneHundred): by the bucket-by attribute,
\* or by the identifier when the target has no such attribute.
bucketOf(target, bucketBy) ==
  LET attrValue == getAttrValue(target, bucketBy)
      text == IF IsNil(attrValue) THEN target.Identifier
              ELSE object(attrValue)
  IN Hash(text) % oneHundred

\* evaluateDistribution: the first variation at which the running total of
\* the weights exceeds the target's bucket.
RECURSIVE distributionLoop(_, _, _, _)
distributionLoop(variations, bucket, i, total) ==
  IF i > Len(variations) THEN ""
  ELSE LET totalPercentage == total + variations[i].Weight
       IN IF totalPercentage > bucket THEN variations[i].Variation
          ELSE distributionLoop(variations, bucket, i + 1, totalPercentage)

evaluateDistribution(distribution, target) ==
  IF IsNil(distribution) THEN ""
  ELSE LET d == Deref(distribution)
       IN distributionLoop(d.Variations, bucketOf(target, d.BucketBy), 1, 0)

evaluateRule(servingRule, target) ==
  evaluateClauses(servingRule.Clauses, target)

\* sort.SliceStable by Priority: each rule goes behind the rules of lower or
\* equal priority that came before it.
RECURSIVE insertStable(_, _)
insertStable(sorted, rule) ==
  IF Len(sorted) = 0 THEN <<rule>>
  ELSE IF rule.Priority < sorted[Len(sorted)].Priority
       THEN Append(insertStable(SubSeq(sorted, 1, Len(sorted) - 1), rule),
                   sorted[Len(sorted)])
       ELSE Append(sorted, rule)

RECURSIVE sortFrom(_, _, _)
sortFrom(servingRules, i, sorted) ==
  IF i > Len(servingRules) THEN sorted
  ELSE sortFrom(servingRules, i + 1, insertStable(sorted, servingRules[i]))

\* SliceStable left out: the rules stay as they are.
NoSort(servingRules) == servingRules

\* A sort by priority that is not stable: equal priorities end up reversed.
RECURSIVE reverse(_)
reverse(list) ==
  IF Len(list) = 0 THEN <<>> ELSE Append(reverse(Tail(list)), Head(list))

SliceReversedTies(servingRules) == sortFrom(reverse(servingRules), 1, <<>>)

SliceStable(servingRules) == sortFrom(servingRules, 1, <<>>)

RECURSIVE rulesLoop(_, _, _)
rulesLoop(servingRules, target, i) ==
  IF i > Len(servingRules) THEN ""
  ELSE LET rule == servingRules[i]
       IN IF ~evaluateRule(rule, target)
          THEN rulesLoop(servingRules, target, i + 1)
          ELSE IF ~IsNil(rule.Serve.Distribution)
          THEN evaluateDistribution(rule.Serve.Distribution, target)
          ELSE IF ~IsNil(rule.Serve.Variation)
          THEN Deref(rule.Serve.Variation)
          ELSE rulesLoop(servingRules, target, i + 1)

\* evaluateRules: the variation, and the slice as the sort leaves it.
evaluateRules(servingRules, target) ==
  LET sorted == SliceStable(servingRules)
  IN [variation |-> rulesLoop(sorted, target, 1), rules |-> sorted]

RECURSIVE targetsLoop(_, _, _)
targetsLoop(targets, target, i) ==
  IF i > Len(targets) THEN FALSE
  ELSE IF targets[i] # "" /\ targets[i] = target.Identifier THEN TRUE
  ELSE targetsLoop(targets, target, i + 1)

RECURSIVE variationMapLoop(_, _, _)
variationMapLoop(variationsMap, target, i) ==
  IF i > Len(variationsMap) THEN ""
  ELSE LET variationMap == variationsMap[i]
           segmentIdentifiers == variationMap.TargetSegments
       IN IF ~IsNil(variationMap.Targets)
             /\ targetsLoop(Deref(variationMap.Targets), target, 1)
          THEN variationMap.Variation
          ELSE IF ~IsNil(segmentIdentifiers)
                  /\ isTargetIncludedOrExcludedInSegment(
                       Deref(segmentIdentifiers), target)
          THEN variationMap.Variation
          ELSE variationMapLoop(variationsMap, target, i + 1)

evaluateVariationMap(variationsMap, target) ==
  variationMapLoop(variationsMap, target, 1)

\* The first of two variation identifiers that is not empty.
orElse(variation, next) == IF variation = "" THEN next ELSE variation

\* servedVariation with the rules consulted before the overrides.
servedVariationRulesFirst(fc, target, fromMap, ruled) ==
  orElse(orElse(orElse(IF ~IsNil(fc.Rules) THEN ruled.variation ELSE "",
                       fromMap),
                evaluateDistribution(fc.DefaultServe.Distribution, target)),
         IF ~IsNil(fc.DefaultServe.Variation)
         THEN Deref(fc.DefaultServe.Variation)
         ELSE "")

\* Lines 207-219: overrides, then rules, then the default serve.
servedVariation(fc, target, fromMap, ruled) ==
  orElse(orElse(orElse(fromMap,
                       IF ~IsNil(fc.Rules) THEN ruled.variation ELSE ""),
                evaluateDistribution(fc.DefaultServe.Distribution, target)),
         IF ~IsNil(fc.DefaultServe.Variation)
         THEN Deref(fc.DefaultServe.Variation)
         ELSE "")

\* Lines 222-225
resolved(fc, variation) ==
  IF variation # "" THEN findVariation(fc.Variations, variation)
  ELSE Fail("ErrEvaluationFlag")

flagResult(result, rules) ==
  [err |-> result.err, variation |-> result.variation, rules |-> rules]

\* evaluateFlag, given what evaluateVariationMap returns (fromMap) and what
\* evaluateRules would (ruled): the result, and fc.Rules as the call leaves
\* the slice, sorted if evaluateRules was called.
evaluateFlagWith(fc, target, fromMap, ruled) ==
  flagResult(resolved(fc, IF fc.State = FeatureStateOn
                          THEN servedVariation(fc, target, fromMap, ruled)
                          ELSE fc.OffVariation),
             IF fc.State = FeatureStateOn /\ fromMap = "" /\ ~IsNil(fc.Rules)
             THEN Some(ruled.rules)
             ELSE fc.Rules)

\* evaluateFlag without the test of fc.State (line 206).
evaluateFlagIgnoringState(fc, target) ==
  evaluateFlagWith([fc EXCEPT !.State = FeatureStateOn], target,
                   IF ~IsNil(fc.VariationToTargetMap)
                   THEN evaluateVariationMap(Deref(fc.VariationToTargetMap),
                                             target)
                   ELSE "",
                   IF ~IsNil(fc.Rules)
                   THEN evaluateRules(Deref(fc.Rules), target)
                   ELSE [variation |-> "", rules |-> <<>>])

evaluateFlag(fc, target) ==
  evaluateFlagWith(fc, target,
                   IF ~IsNil(fc.VariationToTargetMap)
                   THEN evaluateVariationMap(Deref(fc.VariationToTargetMap),
                                             target)
                   ELSE "",
                   IF ~IsNil(fc.Rules)
                   THEN evaluateRules(Deref(fc.Rules), target)
                   ELSE [variation |-> "", rules |-> <<>>])

----------------------------------------------------------------------------
(* Typed accessors: decoding of a variation's value *)

\* What an accessor returns: t names the Go type, and the field of that type
\* holds the value (a float64 as num/den).
RetBool(b) == [t |-> "bool", b |-> b, s |-> "", num |-> 0, den |-> 1]
RetString(s) == [t |-> "string", b |-> FALSE, s |-> s, num |-> 0, den |-> 1]
RetInt(n) == [t |-> "int", b |-> FALSE, s |-> "", num |-> n, den |-> 1]
RetFloat(num, den) ==
  [t |-> "float64", b |-> FALSE, s |-> "", num |-> num, den |-> den]
RetJSON(m) == [t |-> "map", b |-> FALSE, s |-> m, num |-> 0, den |-> 1]
NoRet == [t |-> "none", b |-> FALSE, s |-> "", num |-> 0, den |-> 1]

\* strings.ToLower on the variation values of the model
ToLower(value) == IF value = "TRUE" THEN "true" ELSE value

\* strconv.Atoi
Atoi(value) ==
  CASE value = "42" -> [err |-> FALSE, val |-> 42]
    [] value = "0" -> [err |-> FALSE, val |-> 0]
    [] OTHER -> [err |-> TRUE, val |-> 0]

\* strconv.ParseFloat(value, 64)
ParseFloat(value) ==
  CASE value = "42" -> [err |-> FALSE, num |-> 42, den |-> 1]
    [] value = "0" -> [err |-> FALSE, num |-> 0, den |-> 1]
    [] value = "3.5" -> [err |-> FALSE, num |-> 7, den |-> 2]
    [] OTHER -> [err |-> TRUE, num |-> 0, den |-> 1]

\* json.Unmarshal into a map[string]interface{}: an object decodes, null
\* leaves the nil map, anything else is an error.
Unmarshal(value) ==
  CASE value = "{\"a\":1}" -> [err |-> FALSE, val |-> "map[a:1]"]
    [] value = "{}" -> [err |-> FALSE, val |-> "map[]"]
    [] value = "null" -> [err |-> FALSE, val |-> "map(nil)"]
    [] OTHER -> [err |-> TRUE, val |-> ""]

BoolResult(result, defaultValue) ==
  IF result.err # "none" THEN defaultValue
  ELSE RetBool(ToLower(result.variation.Value) = "true")

StringResult(result, defaultValue) ==
  IF result.err # "none" THEN defaultValue
  ELSE RetString(result.variation.Value)

\* IntVariation returning the zero val of a failed Atoi instead of the
\* default.
IntResultZero(result, defaultValue) ==
  IF result.err # "none" THEN defaultValue
  ELSE RetInt(Atoi(result.variation.Value).val)

IntResult(result, defaultValue) ==
  IF result.err # "none" THEN defaultValue
  ELSE LET a == Atoi(result.variation.Value)
       IN IF a.err THEN defaultValue ELSE RetInt(a.val)

NumberResult(result, defaultValue) ==
  IF result.err # "none" THEN defaultValue
  ELSE LET a == ParseFloat(result.variation.Value)
       IN IF a.err THEN defaultValue ELSE RetFloat(a.num, a.den)

JSONResult(result, defaultValue) ==
  IF result.err # "none" THEN defaultValue
  ELSE LET a == Unmarshal(result.variation.Value)
       IN IF a.err THEN defaultValue ELSE RetJSON(a.val)

\* The part of an accessor that follows its call of evaluate.
accessorReturn(call, result) ==
  CASE call.acc = "BoolVariation" -> BoolResult(result, call.def)
    [] call.acc = "StringVariation" -> StringResult(result, call.def)
    [] call.acc = "IntVariation" -> IntResult(result, call.def)
    [] call.acc = "NumberVariation" -> NumberResult(result, call.def)
    [] call.acc = "JSONVariation" -> JSONResult(result, call.def)
    [] OTHER -> NoRet

----------------------------------------------------------------------------
(* evaluate and checkPreRequisite *)

MaxCalls == 2
MaxDepth == 4

Call(acc, identifier, target, kind, def) ==
  [acc |-> acc, identifier |-> identifier, target |-> target, kind |-> kind,
   def |-> def]

NoCall == Call("none", "", T1, "", NoRet)
NoResult == Fail("pending")
NoRef == [set |-> FALSE, call |-> NoCall, res |-> NoResult]

PostEvalData(featureConfig, target, variation) ==
  [FeatureConfig |-> featureConfig, Target |-> target,
   Variation |-> variation]

\* evaluate returns result (and the accessor what it makes of it), leaving
\* the provider's flags as store.
Return(call, result, prereq, store, log) ==
  /\ pc' = "idle"
  /\ stack' = <<>>
  /\ res' = result
  /\ ret' = accessorReturn(call, result)
  /\ preOk' = prereq
  /\ hookLog' = log
  /\ flags' = store

\* Lines 330-347 of evaluate, once the prerequisites are settled: prereq is
\* "none" (the flag declares none), "true" or "false".
FinishWith(call, prereq, store, ev) ==
  IF ev.err # "none"
  THEN Return(call, Fail(ev.err), prereq,
              [store EXCEPT ![call.identifier].Rules = ev.rules], <<>>)
  ELSE Return(call, Ok(ev.variation), prereq,
              [store EXCEPT ![call.identifier].Rules = ev.rules],
              IF hookSet
              THEN <<PostEvalData(call.identifier, call.target,
                                  ev.variation)>>
              ELSE <<>>)

Finish(call, prereq, store) ==
  IF prereq = "false"
  THEN Return(call,
              findVariation(store[call.identifier].Variations,
                            store[call.identifier].OffVariation),
              prereq, store, <<>>)
  ELSE FinishWith(call, prereq, store,
                  evaluateFlag(store[call.identifier], call.target))

\* Lines 314-329 of evaluate. With mark (of a call that repeats the one
\* before it), the call that finished last is kept in ref for comparison with
\* later ones.
Begin(call, mark) ==
  /\ pc = "idle"
  /\ ncalls < MaxCalls
  /\ ncalls' = ncalls + 1
  /\ cur' = call
  /\ ref' = IF mark THEN [set |-> TRUE, call |-> cur, res |-> res] ELSE ref
  /\ UNCHANGED <<segments, hookSet, orig, fin, fout>>
  /\ LET got == GetFlag(call.identifier)
     IN IF got.err
        THEN Return(call, Fail("ErrFlagNotFound"), "none", flags, <<>>)
        ELSE IF got.flag.Kind # call.kind
        THEN Return(call, Fail("ErrFlagKindMismatch"), "none", flags, <<>>)
        ELSE IF ~IsNil(got.flag.Prerequisites)
        THEN /\ pc' = "prereq"
             /\ stack' = <<[fc |-> call.identifier, i |-> 1]>>
             /\ res' = NoResult
             /\ ret' = NoRet
             /\ preOk' = "none"
             /\ hookLog' = <<>>
             /\ flags' = flags
        ELSE Finish(call, "none", flags)

\* The frame on top of the stack: checkPreRequisite(fc, target) at the i-th
\* prerequisite of fc.
Top == stack[Len(stack)]
TopFlag == flags[Top.fc]
AtEnd ==
  IF IsNil(TopFlag.Prerequisites) THEN TRUE
  ELSE Top.i > Len(Deref(TopFlag.Prerequisites))
Pre == Deref(TopFlag.Prerequisites)[Top.i]
PreFlag == GetFlag(Pre.Feature)
PreEval == evaluateFlag(PreFlag.flag, cur.target)
AfterPreEval == [flags EXCEPT ![Pre.Feature].Rules = PreEval.rules]

\* The calling frame stays at the prerequisite it has just checked.
sameIndex(i) == i

\* The loop of the calling frame goes on to its next prerequisite.
nextIndex(i) == i + 1

\* checkPreRequisite returns r, leaving the provider's flags as store. A
\* false goes up through every calling frame (line 306); a true lets the
\* calling frame go on.
ReturnFrame(r, store) ==
  IF Len(stack) = 1 \/ ~r
  THEN Finish(cur, IF r THEN "true" ELSE "false", store)
  ELSE /\ pc' = "prereq"
       /\ stack' = [SubSeq(stack, 1, Len(stack) - 1)
                      EXCEPT ![Len(stack) - 1].i = nextIndex(@)]
       /\ flags' = store
       /\ UNCHANGED <<res, ret, preOk, hookLog>>

Running ==
  /\ pc = "prereq"
  /\ UNCHANGED <<segments, hookSet, cur, ncalls, ref, orig, fin, fout>>

\* Line 311: the list is exhausted (or nil).
PrereqListDone ==
  /\ Running
  /\ AtEnd
  /\ ReturnFrame(TRUE, flags)

\* Lines 276-281: the prerequisite flag cannot be retrieved.
PrereqLookupFails ==
  /\ Running
  /\ ~AtEnd
  /\ PreFlag.err
  /\ ReturnFrame(TRUE, flags)

\* Lines 283-288: the prerequisite flag cannot be evaluated.
PrereqEvalFails ==
  /\ Running
  /\ ~AtEnd
  /\ ~PreFlag.err
  /\ PreEval.err # "none"
  /\ ReturnFrame(TRUE, AfterPreEval)

\* Lines 303-305: the prerequisite flag's variation is not an allowed one.
PrereqNotAllowed ==
  /\ Running
  /\ ~AtEnd
  /\ ~PreFlag.err
  /\ PreEval.err = "none"
  /\ ~contains(Pre.Variations, PreEval.variation.Identifier)
  /\ ReturnFrame(FALSE, AfterPreEval)

\* Line 306: the recursive call on the prerequisite flag.
PrereqDescend ==
  /\ Running
  /\ ~AtEnd
  /\ ~PreFlag.err
  /\ PreEval.err = "none"
  /\ contains(Pre.Variations, PreEval.variation.Identifier)
  /\ Len(stack) < MaxDepth
  /\ pc' = "prereq"
  /\ stack' = Append(stack, [fc |-> Pre.Feature, i |-> 1])
  /\ flags' = AfterPreEval
  /\ UNCHANGED <<res, ret, preOk, hookLog>>

\* The same call with the stack at its bound: the recursion is deeper than
\* there are flags, it repeats a flag and so never returns.
PrereqOverflow ==
  /\ Running
  /\ ~AtEnd
  /\ ~PreFlag.err
  /\ PreEval.err = "none"
  /\ contains(Pre.Variations, PreEval.variation.Identifier)
  /\ Len(stack) >= MaxDepth
  /\ pc' = "overflow"
  /\ flags' = AfterPreEval
  /\ UNCHANGED <<stack, res, ret, preOk, hookLog>>

----------------------------------------------------------------------------
(* The data the Query provider is given *)

cIsU1 == Clause("identifier", equalSensitiveOperator, <<"u1">>)
cStartsU == Clause("identifier", startsWithOperator, <<"u">>)
cEnds1 == Clause("identifier", endsWithOperator, <<"1">>)
cPlanPro == Clause("plan", equalOperator, <<"pro">>)
cNameRo == Clause("name", containsOperator, <<"ro">>)
cNameMatch == Clause("name", matchOperator, <<"ro">>)
cBadPattern == Clause("name", matchOperator, <<"(">>)
cAgeGt == Clause("age", gtOperator, <<"1">>)
cIn23 == Clause("identifier", inOperator, <<"u3", "u2">>)
cScore == Clause("score", equalSensitiveOperator, <<"">>)
cBeta == Clause("beta", equalOperator, <<"true">>)
cInS1 == Clause("", segmentMatchOperator, <<"S1">>)
cInS2 == Clause("", segmentMatchOperator, <<"S2", "S9">>)
cNoValues == Clause("identifier", equalOperator, <<>>)
cNoOp == Clause("identifier", "", <<"u1">>)
cUnknownOp == Clause("identifier", "like", <<"u1">>)

Clauses ==
  {cIsU1, cStartsU, cEnds1, cPlanPro, cNameRo, cNameMatch, cBadPattern,
   cAgeGt, cIn23, cScore, cBeta, cInS1, cInS2, cNoValues, cNoOp, cUnknownOp}

\* The segments of the flag evaluations: u3 is excluded from S1 and u2
\* included in it; S2 holds u1 by its rule; there is no S9.
MainSegments ==
  [id \in {"S1", "S2"} |->
     IF id = "S1"
     THEN Segment("S1", Some(<<"u3">>), Some(<<"u2", "u3">>), None)
     ELSE Segment("S2", None, None, Some(<<cIsU1>>))]

HalfHalf ==
  Distribution("identifier",
               <<WeightedVariation("A", 50), WeightedVariation("B", 50)>>)
ByPlan ==
  Distribution("plan",
               <<WeightedVariation("C", 40), WeightedVariation("A", 60)>>)

ServeVariation(v) == Serve(None, Some(v))
ServeDistribution(d) == Serve(Some(d), None)

BoolVariations ==
  <<Variation("A", "true"), Variation("B", "TRUE"), Variation("C", "yes"),
    Variation("off", "false")>>
StringVariations ==
  <<Variation("A", "hello"), Variation("B", "not_a_number"),
    Variation("off", "")>>
IntVariations ==
  <<Variation("A", "42"), Variation("B", "not_a_number"),
    Variation("C", "3.5"), Variation("off", "0")>>
JSONVariations ==
  <<Variation("A", "{\"a\":1}"), Variation("B", "[1]"),
    Variation("C", "null"), Variation("off", "{}")>>

VariationsOf(kind) ==
  CASE kind = "boolean" -> BoolVariations
    [] kind = "string" -> StringVariations
    [] kind = "int" -> IntVariations
    [] kind = "json" -> JSONVariations

\* Rule lists of flag F: priorities 3, 1, 2; and a tie on priority 2.
RuleChoices ==
  { None,
    Some(<<ServingRule("r1", 3, <<cBadPattern>>, ServeVariation("A")),
           ServingRule("r2", 1, <<cPlanPro, cNameRo>>, ServeVariation("B")),
           ServingRule("r3", 2, <<cStartsU>>, ServeVariation("C"))>>),
    Some(<<ServingRule("r1", 2, <<cIsU1>>, ServeDistribution(ByPlan)),
           ServingRule("r2", 2, <<cEnds1>>, ServeVariation("A")),
           ServingRule("r3", 1, <<cInS1>>, ServeVariation("B"))>>) }

OverrideChoices ==
  { None,
    Some(<<VariationMap("A", Some(<<"u1">>), None)>>),
    Some(<<VariationMap("B", None, Some(<<"S1">>)),
           VariationMap("C", Some(<<"", "u2", "u3">>), Some(<<"S2">>))>>) }

ServeChoices ==
  { ServeVariation("B"), Serve(Some(HalfHalf), Some("off")),
    Serve(None, None) }

\* Prerequisite flag P: serves A; is off; serves B to u1 and A to the others
\* by its rules; cannot be evaluated.
PFlag(shape, prerequisites) ==
  CASE shape = "A" ->
         FeatureConfig("P", "boolean", FeatureStateOn, BoolVariations, "off",
                       ServeVariation("A"), None, None, prerequisites)
    [] shape = "off" ->
         FeatureConfig("P", "boolean", FeatureStateOff, BoolVariations, "off",
                       ServeVariation("A"), None, None, prerequisites)
    [] shape = "rules" ->
         FeatureConfig("P", "boolean", FeatureStateOn, BoolVariations, "off",
                       Serve(None, None),
                       Some(<<ServingRule("p1", 2, <<cIsU1>>,
                                          ServeVariation("B")),
                              ServingRule("p2", 1, <<cIn23>>,
                                          ServeVariation("A"))>>),
                       None, prerequisites)
    [] shape = "fails" ->
         FeatureConfig("P", "boolean", FeatureStateOn, BoolVariations, "off",
                       Serve(None, None), None, None, prerequisites)

QFlag(shape) ==
  FeatureConfig("Q", "string",
                IF shape = "A" THEN FeatureStateOn ELSE FeatureStateOff,
                StringVariations, "off", ServeVariation("A"), None, None,
                None)

OnQ == Some(<<Prerequisite("Q", <<"A">>)>>)
OnF == Some(<<Prerequisite("F", <<"A", "B", "C", "off">>)>>)

PChoices ==
  { PFlag("A", None), PFlag("off", None), PFlag("rules", None),
    PFlag("fails", None), PFlag("A", OnQ), PFlag("rules", OnQ),
    PFlag("A", OnF), PFlag("rules", OnF) }

QChoices == { QFlag("A"), QFlag("off") }

\* Prerequisite lists of flag F; there is no flag M.
PrereqChoices ==
  { Some(<<Prerequisite("P", <<"A">>)>>),
    Some(<<Prerequisite("M", <<"A">>), Prerequisite("P", <<"A">>)>>),
    Some(<<Prerequisite("P", <<"A", "B">>), Prerequisite("Q", <<"A">>)>>) }

Store(f, p, q) ==
  [id \in {"F", "P", "Q"} |-> IF id = "F" THEN f ELSE IF id = "P" THEN p ELSE q]

\* Flag F without prerequisites, in every combination of state, off
\* variation, default serve, rules and overrides.
PlainStores ==
  { Store(FeatureConfig("F", "boolean", state, BoolVariations, off, serve,
                        rules, overrides, None),
          PFlag("A", None), QFlag("A")) :
      state \in {FeatureStateOn, FeatureStateOff}, off \in {"off", ""},
      serve \in ServeChoices, rules \in RuleChoices,
      overrides \in OverrideChoices }

\* Flag F with prerequisites on P, Q and the missing M.
PrereqStores ==
  { Store(FeatureConfig("F", "boolean", state, BoolVariations, off,
                        ServeVariation("B"),
                        Some(<<ServingRule("r1", 2, <<cAgeGt>>,
                                           ServeVariation("C")),
                               ServingRule("r2", 1, <<cBeta>>,
                                           ServeVariation("A"))>>),
                        Some(<<VariationMap("A", Some(<<"u2">>), None)>>),
                        prerequisites),
          p, q) :
      state \in {FeatureStateOn, FeatureStateOff}, off \in {"off", "zz"},
      prerequisites \in PrereqChoices, p \in PChoices, q \in QChoices }

FlagIds == {"F", "P", "Q", "M"}
Kinds == {"boolean", "string"}

NoInput == [op |-> "none", rules |-> <<>>, list |-> <<>>, target |-> T1]
NoOutput ==
  [done |-> FALSE, variation |-> "", rules |-> <<>>, included |-> FALSE]

Idle ==
  /\ pc = "idle"
  /\ cur = NoCall
  /\ stack = <<>>
  /\ res = NoResult
  /\ ret = NoRet
  /\ preOk = "none"
  /\ hookLog = <<>>
  /\ ncalls = 0
  /\ ref = NoRef
  /\ fout = NoOutput

Init ==
  /\ \/ flags \in PlainStores /\ hookSet \in BOOLEAN
     \/ flags \in PrereqStores /\ hookSet = TRUE
  /\ segments = MainSegments
  /\ orig = [flags |-> flags, segments |-> segments]
  /\ fin = NoInput
  /\ Idle

\* evaluate(identifier, target, kind)
Evaluate ==
  \E identifier \in FlagIds, target \in Targets, kind \in Kinds,
     mark \in BOOLEAN :
    /\ mark => /\ ncalls > 0
               /\ identifier = cur.identifier
               /\ target = cur.target
               /\ kind = cur.kind
    /\ Begin(Call("evaluate", identifier, target, kind, NoRet), mark)

Next ==
  \/ Evaluate
  \/ PrereqListDone
  \/ PrereqLookupFails
  \/ PrereqEvalFails
  \/ PrereqNotAllowed
  \/ PrereqDescend
  \/ PrereqOverflow

Spec == Init /\ [][Next]_vars

----------------------------------------------------------------------------
(* The typed accessors *)

\* Flag F of each kind, with a default serve that decodes, one that does
\* not, one that is no variation of the flag, and none; alone, or with a
\* prerequisite that holds, fails, cannot be found, cannot be evaluated, or
\* closes a cycle.
TypedPrereqs ==
  { <<None, PFlag("A", None)>>,
    <<Some(<<Prerequisite("P", <<"A">>)>>), PFlag("A", None)>>,
    <<Some(<<Prerequisite("P", <<"A">>)>>), PFlag("off", None)>>,
    <<Some(<<Prerequisite("M", <<"A">>), Prerequisite("P", <<"A">>)>>),
      PFlag("off", None)>>,
    <<Some(<<Prerequisite("P", <<"A">>)>>), PFlag("fails", None)>>,
    <<Some(<<Prerequisite("P", <<"A">>)>>), PFlag("A", OnF)>> }

TypedStores ==
  { Store(FeatureConfig("F", kind, sp[1], VariationsOf(kind), "off", serve,
                        None, None, sp[2]),
          sp[3], QFlag("A")) :
      kind \in {"boolean", "string", "int", "json"},
      serve \in {ServeVariation("A"), ServeVariation("B"),
                 ServeVariation("C"), Serve(None, None)},
      sp \in {<<FeatureStateOff, None, PFlag("A", None)>>}
             \cup {<<FeatureStateOn, pp[1], pp[2]>> : pp \in TypedPrereqs} }

InitTyped ==
  /\ flags \in TypedStores
  /\ hookSet = TRUE
  /\ segments = MainSegments
  /\ orig = [flags |-> flags, segments |-> segments]
  /\ fin = NoInput
  /\ Idle

BoolVariation ==
  \E identifier \in FlagIds, target \in Targets, defaultValue \in BOOLEAN :
    Begin(Call("BoolVariation", identifier, target, "boolean",
               RetBool(defaultValue)), FALSE)

StringVariation ==
  \E identifier \in FlagIds, target \in Targets,
     defaultValue \in {"dflt", "hello"} :
    Begin(Call("StringVariation", identifier, target, "string",
               RetString(defaultValue)), FALSE)

IntVariation ==
  \E identifier \in FlagIds, target \in Targets, defaultValue \in {-1, 42} :
    Begin(Call("IntVariation", identifier, target, "int",
               RetInt(defaultValue)), FALSE)

NumberVariation ==
  \E identifier \in FlagIds, target \in Targets,
     defaultValue \in {<<-1, 1>>, <<7, 2>>} :
    Begin(Call("NumberVariation", identifier, target, "int",
               RetFloat(defaultValue[1], defaultValue[2])), FALSE)

JSONVariation ==
  \E identifier \in FlagIds, target \in Targets,
     defaultValue \in {"map[dflt:1]", "map[]"} :
    Begin(Call("JSONVariation", identifier, target, "json",
               RetJSON(defaultValue)), FALSE)

NextTyped ==
  \/ BoolVariation
  \/ StringVariation
  \/ IntVariation
  \/ NumberVariation
  \/ JSONVariation
  \/ PrereqListDone
  \/ PrereqLookupFails
  \/ PrereqEvalFails
  \/ PrereqNotAllowed
  \/ PrereqDescend
  \/ PrereqOverflow

SpecTyped == InitTyped /\ [][NextTyped]_vars

----------------------------------------------------------------------------
(* The rule resolver and the segment resolver on their own *)

MaxRules == 3
MaxSegList == 3

\* The sequences over S of length at most n.
SeqsUpTo(S, n) == UNION { [1..k -> S] : k \in 0..n }

RulePool ==
  { ServingRule("a", 3, <<cIsU1>>, ServeVariation("A")),
    ServingRule("b", 1, <<cIn23>>, ServeVariation("B")),
    ServingRule("c", 2, <<cStartsU>>, ServeDistribution(HalfHalf)),
    ServingRule("d", 1, <<cPlanPro, cNameMatch>>, ServeVariation("C")),
    ServingRule("e", 2, <<>>, ServeVariation("A")),
    ServingRule("f", 3, <<cInS1>>, ServeDistribution(ByPlan)),
    ServingRule("g", 1, <<cAgeGt, cEnds1>>, ServeVariation("A")),
    ServingRule("h", 2, <<cScore>>, ServeVariation("B")) }

Standby ==
  /\ flags = Store(FeatureConfig("F", "boolean", FeatureStateOn,
                                  BoolVariations, "off", ServeVariation("A"),
                                  None, None, None),
                   PFlag("A", None), QFlag("A"))
  /\ hookSet = FALSE
  /\ orig = [flags |-> flags, segments |-> segments]
  /\ Idle

InitRules ==
  /\ segments = MainSegments
  /\ \E rules \in SeqsUpTo(RulePool, MaxRules), target \in Targets :
       fin = [op |-> "rules", rules |-> rules, list |-> <<>>,
              target |-> target]
  /\ Standby

\* e.evaluateRules(fin.rules, fin.target)
ApplyRules ==
  /\ fin.op = "rules"
  /\ ~fout.done
  /\ fout' = [done |-> TRUE,
              variation |-> evaluateRules(fin.rules, fin.target).variation,
              rules |-> evaluateRules(fin.rules, fin.target).rules,
              included |-> FALSE]
  /\ UNCHANGED <<flags, segments, hookSet, pc, cur, stack, res, ret, preOk,
                 hookLog, ncalls, ref, orig, fin>>

SpecRules == InitRules /\ [][ApplyRules]_vars

SegmentShape(identifier, shape) ==
  CASE shape = "both" ->
         Segment(identifier, Some(<<"u1">>), Some(<<"u1", "u2">>), None)
    [] shape = "included" ->
         Segment(identifier, None, Some(<<"u2">>), None)
    [] shape = "rules" ->
         Segment(identifier, Some(<<>>), None, Some(<<cIn23, cBeta>>))
    [] shape = "open" ->
         Segment(identifier, None, None, Some(<<>>))
    [] shape = "empty" ->
         Segment(identifier, None, None, None)
    [] shape = "excluded" ->
         Segment(identifier, Some(<<"u3">>), None, Some(<<cStartsU>>))
    [] shape = "nested" ->
         Segment(identifier, None, Some(<<"u3">>), Some(<<cInS2>>))

SegmentStores ==
  { [id \in {"S1", "S2"} |->
       IF id = "S1" THEN SegmentShape("S1", s1) ELSE SegmentShape("S2", s2)] :
      s1 \in {"both", "included", "rules", "open", "empty", "excluded",
              "nested"},
      s2 \in {"both", "included", "rules", "open", "empty", "excluded"} }

InitSegments ==
  /\ segments \in SegmentStores
  /\ \E list \in SeqsUpTo({"S1", "S2", "S9"}, MaxSegList),
        target \in Targets :
       fin = [op |-> "segments", rules |-> <<>>, list |-> list,
              target |-> target]
  /\ Standby

\* e.isTargetIncludedOrExcludedInSegment(fin.list, fin.target)
ApplySegments ==
  /\ fin.op = "segments"
  /\ ~fout.done
  /\ fout' = [done |-> TRUE, variation |-> "", rules |-> <<>>,
              included |->
                isTargetIncludedOrExcludedInSegment(fin.list, fin.target)]
  /\ UNCHANGED <<flags, segments, hookSet, pc, cur, stack, res, ret, preOk,
                 hookLog, ncalls, ref, orig, fin>>

SpecSegments == InitSegments /\ [][ApplySegments]_vars

----------------------------------------------------------------------------
(* Properties *)

\* A call has returned; cur is that call, res and ret what it returned.
Done == pc = "idle" /\ cur.acc # "none"

\* The call found its flag, of the kind it asked for.
Evaluated ==
  /\ Done
  /\ cur.identifier \in DOMAIN flags
  /\ flags[cur.identifier].Kind = cur.kind

CurFlag == flags[cur.identifier]

HasVariation(fc, identifier) ==
  \E i \in 1..Len(fc.Variations) : fc.Variations[i].Identifier = identifier

OverrideOf(fc, target) ==
  IF IsNil(fc.VariationToTargetMap) THEN ""
  ELSE evaluateVariationMap(Deref(fc.VariationToTargetMap), target)

RuleOf(fc, target) ==
  IF IsNil(fc.Rules) THEN ""
  ELSE evaluateRules(Deref(fc.Rules), target).variation

\* C1: a flag that is off, and whose off variation is one of its variations,
\* is evaluated to that variation: for every target, whatever its rules,
\* overrides and default serve, and however its prerequisites turn out.
C1_OffServesOffVariation ==
  (Evaluated /\ CurFlag.State = FeatureStateOff
     /\ HasVariation(CurFlag, CurFlag.OffVariation))
  => /\ res.err = "none"
     /\ res.variation.Identifier = CurFlag.OffVariation
     /\ \E i \in 1..Len(CurFlag.Variations) :
          res.variation = CurFlag.Variations[i]

\* An off flag, whose prerequisites hold and whose override names the
\* target, has served its off variation.
C1_Witness ==
  /\ Evaluated
  /\ CurFlag.State = FeatureStateOff
  /\ preOk = "true"
  /\ OverrideOf(CurFlag, cur.target) # ""
  /\ res.err = "none"
  /\ res.variation.Identifier = CurFlag.OffVariation
  /\ OverrideOf(CurFlag, cur.target) # CurFlag.OffVariation

\* Some prerequisite of fc names a flag that resolves, for the target, to a
\* variation outside the prerequisite's allowed ones.
RECURSIVE PrerequisiteRefusedFrom(_, _, _)
PrerequisiteRefusedFrom(prerequisites, target, i) ==
  IF i > Len(prerequisites) THEN FALSE
  ELSE IF /\ prerequisites[i].Feature \in DOMAIN flags
          /\ evaluateFlag(flags[prerequisites[i].Feature], target).err
               = "none"
          /\ ~contains(prerequisites[i].Variations,
                       evaluateFlag(flags[prerequisites[i].Feature],
                                    target).variation.Identifier)
       THEN TRUE
       ELSE PrerequisiteRefusedFrom(prerequisites, target, i + 1)

PrerequisiteRefused(fc, target) ==
  /\ ~IsNil(fc.Prerequisites)
  /\ PrerequisiteRefusedFrom(Deref(fc.Prerequisites), target, 1)

\* C2: if a flag that is on has a prerequisite whose flag resolves for the
\* target to a variation outside the allowed set, evaluate returns the
\* flag's off variation (which is one of the flag's variations).
C2_RefusedPrerequisiteServesOff ==
  (Evaluated /\ CurFlag.State = FeatureStateOn
     /\ HasVariation(CurFlag, CurFlag.OffVariation)
     /\ PrerequisiteRefused(CurFlag, cur.target))
  => /\ res.err = "none"
     /\ res.variation.Identifier = CurFlag.OffVariation

\* The first identifier of a sequence that is not empty, or "".
RECURSIVE FirstNonEmptyFrom(_, _)
FirstNonEmptyFrom(ids, i) ==
  IF i > Len(ids) THEN ""
  ELSE IF ids[i] # "" THEN ids[i]
  ELSE FirstNonEmptyFrom(ids, i + 1)

Precedence(fc, target) ==
  FirstNonEmptyFrom(
    << OverrideOf(fc, target),
       RuleOf(fc, target),
       evaluateDistribution(fc.DefaultServe.Distribution, target),
       IF IsNil(fc.DefaultServe.Variation) THEN ""
       ELSE Deref(fc.DefaultServe.Variation) >>, 1)

NamedFirst(fc, target) ==
  /\ ~IsNil(fc.VariationToTargetMap)
  /\ Len(Deref(fc.VariationToTargetMap)) > 0
  /\ ~IsNil(Deref(fc.VariationToTargetMap)[1].Targets)
  /\ \E i \in 1..Len(Deref(Deref(fc.VariationToTargetMap)[1].Targets)) :
       Deref(Deref(fc.VariationToTargetMap)[1].Targets)[i]
         = target.Identifier

\* C3: a flag that is on, with its prerequisites satisfied, serves the first
\* non-empty of override, rule, default distribution, default variation (and
\* fails if that is empty or no variation of the flag); a target named in
\* the first override entry gets that entry's variation even if a rule
\* matches, and one that no override and no rule matches the default serve.
C3_Precedence ==
  (Evaluated /\ CurFlag.State = FeatureStateOn /\ preOk # "false")
  => /\ IF HasVariation(CurFlag, Precedence(CurFlag, cur.target))
        THEN /\ res.err = "none"
             /\ res.variation.Identifier = Precedence(CurFlag, cur.target)
        ELSE res.err # "none"
     /\ (NamedFirst(CurFlag, cur.target) /\ res.err = "none")
          => res.variation.Identifier
               = Deref(CurFlag.VariationToTargetMap)[1].Variation
     /\ (OverrideOf(CurFlag, cur.target) = ""
           /\ RuleOf(CurFlag, cur.target) = "" /\ res.err = "none")
          => res.variation.Identifier
               = orElse(evaluateDistribution(CurFlag.DefaultServe.Distribution,
                                             cur.target),
                        IF IsNil(CurFlag.DefaultServe.Variation) THEN ""
                        ELSE Deref(CurFlag.DefaultServe.Variation))

\* An override has won against a rule that matches the target and serves
\* another variation.
C3_Witness ==
  /\ Evaluated
  /\ CurFlag.State = FeatureStateOn
  /\ NamedFirst(CurFlag, cur.target)
  /\ RuleOf(CurFlag, cur.target) # ""
  /\ RuleOf(CurFlag, cur.target) # OverrideOf(CurFlag, cur.target)
  /\ res.err = "none"
  /\ res.variation.Identifier = OverrideOf(CurFlag, cur.target)

\* The rule of the list that comes first by ascending priority, equal
\* priorities in their order in the list, among those that match.
RuleMatches(i) == evaluateClauses(fin.rules[i].Clauses, fin.target)

ComesBefore(i, j) ==
  \/ fin.rules[i].Priority < fin.rules[j].Priority
  \/ fin.rules[i].Priority = fin.rules[j].Priority /\ i < j

RuleOutcome(rule, target) ==
  IF ~IsNil(rule.Serve.Distribution)
  THEN evaluateDistribution(rule.Serve.Distribution, target)
  ELSE Deref(rule.Serve.Variation)

\* C4: the rule resolver returns the outcome (the distribution's bucket, else
\* the fixed variation) of the matching rule that comes first by ascending
\* priority, ties in list order; no other rule changes the result, which is
\* empty exactly if no rule matches.
C4_FirstMatchingRule ==
  fout.done =>
    /\ \A i \in 1..Len(fin.rules) :
         (RuleMatches(i)
            /\ \A j \in 1..Len(fin.rules) :
                 (j # i /\ RuleMatches(j)) => ComesBefore(i, j))
         => fout.variation = RuleOutcome(fin.rules[i], fin.target)
    /\ fout.variation = ""
         <=> ~\E i \in 1..Len(fin.rules) : RuleMatches(i)

\* Priorities 3, 1, 2 matching no, yes, yes: the rule of priority 1 decided,
\* and the rule of priority 2 would have decided otherwise.
C4_Witness ==
  /\ fout.done
  /\ Len(fin.rules) = 3
  /\ fin.rules[1].Priority = 3 /\ ~RuleMatches(1)
  /\ fin.rules[2].Priority = 1 /\ RuleMatches(2)
  /\ fin.rules[3].Priority = 2 /\ RuleMatches(3)
  /\ fout.variation = RuleOutcome(fin.rules[2], fin.target)
  /\ fout.variation # RuleOutcome(fin.rules[3], fin.target)
  /\ fout.rules # fin.rules

\* What one segment decides for a target: "out" (no such segment, or the
\* target is excluded), "in" (included, or all rule clauses match), or
\* "next".
Decides(identifier, target) ==
  IF identifier \notin DOMAIN segments THEN "out"
  ELSE IF /\ ~IsNil(segments[identifier].Excluded)
          /\ \E k \in 1..Len(Deref(segments[identifier].Excluded)) :
               Deref(segments[identifier].Excluded)[k] = target.Identifier
  THEN "out"
  ELSE IF /\ ~IsNil(segments[identifier].Included)
          /\ \E k \in 1..Len(Deref(segments[identifier].Included)) :
               Deref(segments[identifier].Included)[k] = target.Identifier
  THEN "in"
  ELSE IF /\ ~IsNil(segments[identifier].Rules)
          /\ \A k \in 1..Len(Deref(segments[identifier].Rules)) :
               evaluateClause(Deref(segments[identifier].Rules)[k], target)
  THEN "in"
  ELSE "next"

\* C5: the segment resolver returns what the first decisive segment of the
\* list decides, and false if none is decisive; a lookup failure and an
\* exclusion are decisive (false) before any later segment, and exclusion
\* wins over inclusion in the same segment.
C5_FirstDecisiveSegment ==
  fout.done =>
    /\ fout.included
         <=> \E i \in 1..Len(fin.list) :
               /\ Decides(fin.list[i], fin.target) = "in"
               /\ \A j \in 1..(i - 1) :
                    Decides(fin.list[j], fin.target) = "next"
    /\ \A i \in 1..Len(fin.list) :
         (/\ fin.list[i] \in DOMAIN segments
          /\ ~IsNil(segments[fin.list[i]].Excluded)
          /\ isTargetInList(fin.target, Deref(segments[fin.list[i]].Excluded))
          /\ \A j \in 1..(i - 1) : Decides(fin.list[j], fin.target) # "in")
         => ~fout.included

\* The target is in the excluded and in the included list of the first
\* segment, a later segment would include it, and it is not included.
C5_Witness ==
  /\ fout.done
  /\ Len(fin.list) >= 2
  /\ fin.list[1] \in DOMAIN segments
  /\ ~IsNil(segments[fin.list[1]].Excluded)
  /\ isTargetInList(fin.target, Deref(segments[fin.list[1]].Excluded))
  /\ ~IsNil(segments[fin.list[1]].Included)
  /\ isTargetInList(fin.target, Deref(segments[fin.list[1]].Included))
  /\ Decides(fin.list[2], fin.target) = "in"
  /\ ~fout.included

\* What the accessor of a call makes of a variation's value: ok says
\* whether the value decodes.
Decoded(acc, value) ==
  CASE acc = "BoolVariation" ->
         [ok |-> TRUE, val |-> RetBool(ToLower(value) = "true")]
    [] acc = "StringVariation" -> [ok |-> TRUE, val |-> RetString(value)]
    [] acc = "IntVariation" ->
         [ok |-> ~Atoi(value).err, val |-> RetInt(Atoi(value).val)]
    [] acc = "NumberVariation" ->
         [ok |-> ~ParseFloat(value).err,
          val |-> RetFloat(ParseFloat(value).num, ParseFloat(value).den)]
    [] acc = "JSONVariation" ->
         [ok |-> ~Unmarshal(value).err, val |-> RetJSON(Unmarshal(value).val)]

\* C6: a typed accessor returns a value of its type; it is the caller's
\* default whenever evaluate failed (no such flag, another kind, no variation
\* resolved, or one the flag does not have) or the value does not decode,
\* and else the decoded value of the variation evaluate resolved.
C6_DefaultOnAnyError ==
  (Done /\ cur.acc # "evaluate") =>
    /\ ret.t = cur.def.t
    /\ (cur.identifier \notin DOMAIN flags) => ret = cur.def
    /\ (cur.identifier \in DOMAIN flags /\ CurFlag.Kind # cur.kind)
         => ret = cur.def
    /\ res.err # "none" => ret = cur.def
    /\ (res.err = "none" /\ ~Decoded(cur.acc, res.variation.Value).ok)
         => ret = cur.def
    /\ (res.err = "none" /\ Decoded(cur.acc, res.variation.Value).ok)
         => ret = Decoded(cur.acc, res.variation.Value).val
    /\ (Evaluated /\ preOk # "false"
          /\ ~HasVariation(CurFlag, Precedence(CurFlag, cur.target))
          /\ CurFlag.State = FeatureStateOn)
         => ret = cur.def

\* IntVariation got a variation whose value is no integer and returned the
\* default, which is not the zero value.
C6_Witness ==
  /\ Done
  /\ cur.acc = "IntVariation"
  /\ res.err = "none"
  /\ Atoi(res.variation.Value).err
  /\ ret = cur.def
  /\ ret # RetInt(0)

\* C7: with a hook registered, an evaluate that resolves a variation -- also
\* the off variation served for unsatisfied prerequisites -- has invoked the
\* hook exactly once, with its flag, target and variation; one that returns
\* an error has not invoked it, and nested evaluations never do.
C7_HookOncePerEvaluate ==
  (Done /\ hookSet) =>
    hookLog = IF res.err = "none"
              THEN <<PostEvalData(cur.identifier, cur.target,
                                  res.variation)>>
              ELSE <<>>

\* Some prerequisite of fc, at any position and depth (to depth levels),
\* names a flag that resolves to a variation outside the allowed ones.
RECURSIVE RefusedAnywhere(_, _, _)
RefusedAnywhere(fc, target, depth) ==
  /\ depth > 0
  /\ ~IsNil(fc.Prerequisites)
  /\ \E i \in 1..Len(Deref(fc.Prerequisites)) :
       /\ Deref(fc.Prerequisites)[i].Feature \in DOMAIN flags
       /\ evaluateFlag(flags[Deref(fc.Prerequisites)[i].Feature],
                       target).err = "none"
       /\ \/ ~contains(Deref(fc.Prerequisites)[i].Variations,
                       evaluateFlag(flags[Deref(fc.Prerequisites)[i].Feature],
                                    target).variation.Identifier)
          \/ RefusedAnywhere(flags[Deref(fc.Prerequisites)[i].Feature],
                             target, depth - 1)

\* C8: the prerequisite check of a flag fails whenever a prerequisite, at
\* any position of the list and any depth, resolves to a variation outside
\* its allowed set; one that cannot be looked up or evaluated does not keep
\* the others from being checked.
C8_AnyRefusedPrerequisiteFails ==
  (Evaluated /\ ~IsNil(CurFlag.Prerequisites)
     /\ RefusedAnywhere(CurFlag, cur.target, MaxDepth))
  => preOk = "false"

\* now is was put in ascending order of priority, rules of equal priority
\* in the order they had in was.
IsStableSortOf(now, was) ==
  /\ Len(now) = Len(was)
  /\ \E p \in [1..Len(was) -> 1..Len(was)] :
       /\ \A i, j \in 1..Len(was) : p[i] = p[j] => i = j
       /\ \A i \in 1..Len(was) : now[i] = was[p[i]]
       /\ \A i, j \in 1..Len(was) :
            i < j => \/ now[i].Priority < now[j].Priority
                     \/ now[i].Priority = now[j].Priority /\ p[i] < p[j]

\* C9: whatever has been evaluated, the segments and every field of every
\* flag are as supplied, but for the order of a flag's rules, which is the
\* supplied one or its stable sort by priority (the latter once the rules of
\* the evaluated flag have been consulted); and an evaluation repeated for
\* the same flag, target and kind returns what it returned before.
C9_OnlyRuleOrderChanges ==
  /\ segments = orig.segments
  /\ DOMAIN flags = DOMAIN orig.flags
  /\ \A f \in DOMAIN flags :
       /\ [flags[f] EXCEPT !.Rules = orig.flags[f].Rules] = orig.flags[f]
       /\ \/ flags[f].Rules = orig.flags[f].Rules
          \/ /\ ~IsNil(flags[f].Rules)
             /\ ~IsNil(orig.flags[f].Rules)
             /\ IsStableSortOf(Deref(flags[f].Rules),
                               Deref(orig.flags[f].Rules))
  /\ (Evaluated /\ CurFlag.State = FeatureStateOn /\ preOk # "false"
        /\ OverrideOf(CurFlag, cur.target) = "" /\ ~IsNil(CurFlag.Rules))
       => IsStableSortOf(Deref(CurFlag.Rules),
                         Deref(orig.flags[cur.identifier].Rules))
  /\ (Done /\ ref.set /\ ref.call = cur) => res = ref.res

\* The rules of a flag have changed their order, and an evaluation has been
\* repeated since and returned a variation.
C9_Witness ==
  /\ Done
  /\ ref.set
  /\ ref.call = cur
  /\ res.err = "none"
  /\ Evaluated
  /\ flags[cur.identifier].Rules # orig.flags[cur.identifier].Rules
  /\ RuleOf(CurFlag, cur.target) = res.variation.Identifier

\* The flags a flag names as prerequisites.
Requires(f) ==
  IF f \notin DOMAIN flags \/ IsNil(flags[f].Prerequisites) THEN {}
  ELSE { Deref(flags[f].Prerequisites)[i].Feature :
           i \in 1..Len(Deref(flags[f].Prerequisites)) }

\* The flags reached from f by at least one and at most n prerequisite
\* edges.
RECURSIVE ReachedFrom(_, _)
ReachedFrom(f, n) ==
  IF n = 0 THEN {}
  ELSE Requires(f) \cup UNION { ReachedFrom(g, n - 1) : g \in Requires(f) }

Acyclic ==
  \A f \in DOMAIN flags : f \notin ReachedFrom(f, Cardinality(DOMAIN flags))

\* The stack of frames is a path of the prerequisite graph without a
\* repeated flag, each frame at a prerequisite of its flag or just past the
\* last.
StackIsPath ==
  /\ \A k \in 1..Len(stack) :
       /\ stack[k].fc \in DOMAIN flags
       /\ stack[k].i >= 1
       /\ stack[k].i <= 1 + (IF IsNil(flags[stack[k].fc].Prerequisites) THEN 0
                             ELSE Len(Deref(flags[stack[k].fc].Prerequisites)))
  /\ \A k \in 2..Len(stack) : stack[k].fc \in Requires(stack[k - 1].fc)
  /\ \A k, l \in 1..Len(stack) : stack[k].fc = stack[l].fc => k = l

\* The positions of the frames, and their lexicographic order (a proper
\* prefix comes first).
Positions(frames) == [k \in 1..Len(frames) |-> frames[k].i]

RECURSIVE LexLess(_, _)
LexLess(a, b) ==
  IF Len(b) = 0 THEN FALSE
  ELSE IF Len(a) = 0 THEN TRUE
  ELSE IF a[1] # b[1] THEN a[1] < b[1]
  ELSE LexLess(Tail(a), Tail(b))

C10_CycleDiverges == pc = "overflow" /\ ~Acyclic

====
